---- MODULE Spec2Model ----
(***************************************************************************)
(* A model of gale's mod-loader installer selection (game/mod_loader.rs)   *)
(* and of its sync credentials store (profile/sync/auth.rs).               *)
(*                                                                         *)
(* Strings are TLA+ strings; Option<T> is a sequence of length 0 (None) or *)
(* 1 (Some(x)); Vec<T> and slices are sequences (Rust index i is i + 1).   *)
(***************************************************************************)
EXTENDS Integers, Sequences, FiniteSets, TLC

\* ------------------------------------------------------------------ bounds

\* Longest extra_subdirs list a loader descriptor is drawn with.
MaxExtras == 1

\* Longest files list a ReturnOfModding descriptor is drawn with.
MaxFiles == 2

\* Number of concurrently running auth tasks (tauri commands).
MaxTasks == 2

\* Largest value of the wall clock (seconds).
MaxTime == 1

\* ----------------------------------------------------------------- strings

None == <<>>

Some(x) == <<x>>

IsSome(o) == Len(o) = 1

Unwrap(o) == o[1]

\* str::starts_with
StartsWith(s, p) == Len(s) >= Len(p) /\ SubSeq(s, 1, Len(p)) = p

\* str::ends_with
EndsWith(s, p) == Len(s) >= Len(p) /\ SubSeq(s, Len(s) - Len(p) + 1, Len(s)) = p

LowerChar(c) ==
    CASE c = "A" -> "a" [] c = "B" -> "b" [] c = "C" -> "c" [] c = "D" -> "d"
      [] c = "E" -> "e" [] c = "F" -> "f" [] c = "G" -> "g" [] c = "H" -> "h"
      [] c = "I" -> "i" [] c = "J" -> "j" [] c = "K" -> "k" [] c = "L" -> "l"
      [] c = "M" -> "m" [] c = "N" -> "n" [] c = "O" -> "o" [] c = "P" -> "p"
      [] c = "Q" -> "q" [] c = "R" -> "r" [] c = "S" -> "s" [] c = "T" -> "t"
      [] c = "U" -> "u" [] c = "V" -> "v" [] c = "W" -> "w" [] c = "X" -> "x"
      [] c = "Y" -> "y" [] c = "Z" -> "z" [] OTHER -> c

RECURSIVE ToLower(_)
ToLower(s) == IF Len(s) = 0 THEN "" ELSE LowerChar(Head(s)) \o ToLower(Tail(s))

EqIgnoreCase(a, b) == ToLower(a) = ToLower(b)

PathJoin(a, b) == a \o "/" \o b

\* The sequences over the elements of `pool` of length at most n.
RECURSIVE SeqsUpTo(_, _)
SeqsUpTo(pool, n) ==
    IF n = 0 THEN {<<>>}
    ELSE LET shorter == SeqsUpTo(pool, n - 1)
         IN  shorter \cup {Append(s, x) : s \in shorter, x \in pool}

\* ------------------------------------------------------------- Subdir rules

flat_separated(name, target) ==
    [name |-> name, target |-> target, mode |-> "flat_separated",
     mutable |-> FALSE, extension |-> None]

separated(name, target) ==
    [name |-> name, target |-> target, mode |-> "separated",
     mutable |-> FALSE, extension |-> None]

tracked(name, target) ==
    [name |-> name, target |-> target, mode |-> "tracked",
     mutable |-> FALSE, extension |-> None]

untracked(name, target) ==
    [name |-> name, target |-> target, mode |-> "untracked",
     mutable |-> FALSE, extension |-> None]

extension(subdir, ext) == [subdir EXCEPT !.extension = Some(ext)]

mutable(subdir) == [subdir EXCEPT !.mutable = TRUE]

\* --------------------------------------------------------------- installers

NoInstaller ==
    [kind |-> "", subdirs |-> <<>>, extra_subdirs |-> <<>>, default |-> None,
     ignored_files |-> <<>>, files |-> <<>>, flatten |-> FALSE]

SubdirInstaller_new(subdirs) ==
    [NoInstaller EXCEPT !.kind = "SubdirInstaller", !.subdirs = subdirs]

with_default(installer, index) == [installer EXCEPT !.default = Some(index)]

with_extras(installer, extras) == [installer EXCEPT !.extra_subdirs = extras]

with_ignored_files(installer, ignored) == [installer EXCEPT !.ignored_files = ignored]

ExtractInstaller_new(files, flatten) ==
    [NoInstaller EXCEPT !.kind = "ExtractInstaller", !.files = files, !.flatten = flatten]

BepinexInstaller == [NoInstaller EXCEPT !.kind = "BepinexInstaller"]

GDWeaveModInstaller == [NoInstaller EXCEPT !.kind = "GDWeaveModInstaller"]

ShimloaderInstaller == [NoInstaller EXCEPT !.kind = "ShimloaderInstaller"]

FlattenTopLevel_Yes == TRUE

FlattenTopLevel_No == FALSE

\* ------------------------------------------------------------ ModLoader

ModLoaderKinds ==
    {"BepInEx", "BepisLoader", "MelonLoader", "Northstar", "GDWeave",
     "Shimloader", "Lovely", "ReturnOfModding"}

\* The variants whose serde representation carries "subdirs".
HasExtraSubdirs(kind) == kind \in {"BepInEx", "BepisLoader", "MelonLoader"}

ModLoader(package_name, kind, extra_subdirs, files) ==
    [package_name |-> package_name, kind |-> kind,
     extra_subdirs |-> extra_subdirs, files |-> files]

is_loader_package_first_only(self, full_name) ==
    IF IsSome(self.package_name)
    THEN full_name = Unwrap(self.package_name)
    ELSE CASE self.kind = "BepInEx" -> StartsWith(full_name, "BepInEx-BepInExPack")
           [] self.kind = "BepisLoader" -> full_name = "ResoniteModding-BepisLoader"
           [] self.kind = "MelonLoader" -> full_name = "LavaGang-MelonLoader"
           [] self.kind = "GDWeave" -> full_name = "NotNet-GDWeave"
           [] self.kind = "Northstar" -> full_name = "northstar-Northstar"
           [] self.kind = "Shimloader" -> full_name = "Thunderstore-unreal_shimloader"
           [] self.kind = "Lovely" -> full_name = "Thunderstore-lovely"
           [] self.kind = "ReturnOfModding" -> full_name = "ReturnOfModding-ReturnOfModding"

is_loader_package(self, full_name) ==
    IF IsSome(self.package_name)
    THEN full_name = Unwrap(self.package_name)
    ELSE CASE self.kind = "BepInEx" -> StartsWith(full_name, "BepInEx-BepInExPack")
           [] self.kind = "BepisLoader" ->
                \/ full_name = "ResoniteModding-BepisLoader"
                \/ full_name = "ResoniteModding-BepInExRenderer"
           [] self.kind = "MelonLoader" -> full_name = "LavaGang-MelonLoader"
           [] self.kind = "GDWeave" -> full_name = "NotNet-GDWeave"
           [] self.kind = "Northstar" -> full_name = "northstar-Northstar"
           [] self.kind = "Shimloader" -> full_name = "Thunderstore-unreal_shimloader"
           [] self.kind = "Lovely" -> full_name = "Thunderstore-lovely"
           [] self.kind = "ReturnOfModding" -> full_name = "ReturnOfModding-ReturnOfModding"

\* The arms of installer_for's match, one definition per arm that builds an
\* installer from data.

BepInExSubdirs ==
    << flat_separated("plugins", "BepInEx/plugins"),
       flat_separated("patchers", "BepInEx/patchers"),
       extension(flat_separated("monomod", "BepInEx/monomod"), ".mm.dll"),
       flat_separated("core", "BepInEx/core"),
       mutable(untracked("config", "BepInEx/config")) >>

BepInExModInstaller_extras_first(extra_subdirs) ==
    with_default(SubdirInstaller_new(extra_subdirs \o BepInExSubdirs), 0)

BepInExModInstaller(extra_subdirs) ==
    with_extras(with_default(SubdirInstaller_new(BepInExSubdirs), 0), extra_subdirs)

BepisLoaderSubdirs ==
    << flat_separated("Renderer", "Renderer/BepInEx/plugins"),
       flat_separated("plugins", "BepInEx/plugins"),
       flat_separated("patchers", "BepInEx/patchers"),
       extension(flat_separated("monomod", "BepInEx/monomod"), ".mm.dll"),
       flat_separated("core", "BepInEx/core"),
       mutable(untracked("config", "BepInEx/config")) >>

BepisLoaderModInstaller_default_first(extra_subdirs) ==
    with_extras(with_default(SubdirInstaller_new(BepisLoaderSubdirs), 0), extra_subdirs)

BepisLoaderModInstaller(extra_subdirs) ==
    with_extras(with_default(SubdirInstaller_new(BepisLoaderSubdirs), 1), extra_subdirs)

MelonLoaderFiles ==
    << "dobby.dll", "version.dll", "MelonLoader/Dependencies",
       "MelonLoader/Documentation", "MelonLoader/net6", "MelonLoader/net35" >>

MelonLoaderLoaderInstaller == ExtractInstaller_new(MelonLoaderFiles, FlattenTopLevel_No)

MelonLoaderSubdirs ==
    << extension(tracked("UserLibs", "UserLibs"), ".lib.dll"),
       extension(tracked("Managed", "MelonLoader/Managed"), ".managed.dll"),
       extension(tracked("Mods", "Mods"), ".dll"),
       separated("ModManager", "UserData/ModManager"),
       tracked("MelonLoader", "MelonLoader"),
       tracked("Libs", "MelonLoader/Libs") >>

MelonLoaderIgnored == << "manifest.json", "icon.png", "README.md" >>

MelonLoaderModInstaller(extra_subdirs) ==
    with_ignored_files(
        with_extras(with_default(SubdirInstaller_new(MelonLoaderSubdirs), 2), extra_subdirs),
        MelonLoaderIgnored)

GDWeaveFiles == << "winmm.dll", "GDWeave/core" >>

GDWeaveLoaderInstaller == ExtractInstaller_new(GDWeaveFiles, FlattenTopLevel_No)

NorthstarFiles ==
    << "Northstar.dll", "NorthstarLauncher.exe", "r2ds.bat", "bin",
       "R2Northstar/plugins", "R2Northstar/mods/Northstar.Client",
       "R2Northstar/mods/Northstar.Custom", "R2Northstar/mods/Northstar.CustomServers",
       "R2Northstar/mods/md5sum.text" >>

NorthstarLoaderInstaller_no_flatten == ExtractInstaller_new(NorthstarFiles, FlattenTopLevel_No)

NorthstarLoaderInstaller == ExtractInstaller_new(NorthstarFiles, FlattenTopLevel_Yes)

NorthstarSubdirs == << tracked("mods", "R2Northstar/mods") >>

NorthstarIgnored == << "manifest.json", "icon.png", "README.md", "LICENSE" >>

NorthstarModInstaller_no_ignored == SubdirInstaller_new(NorthstarSubdirs)

NorthstarModInstaller_with_default ==
    with_ignored_files(with_default(SubdirInstaller_new(NorthstarSubdirs), 0), NorthstarIgnored)

NorthstarModInstaller ==
    with_ignored_files(SubdirInstaller_new(NorthstarSubdirs), NorthstarIgnored)

ShimloaderSubdirs ==
    << flat_separated("mod", "shimloader/mod"),
       flat_separated("pak", "shimloader/pak"),
       mutable(untracked("cfg", "shimloader/cfg")) >>

ShimloaderModInstaller == with_default(SubdirInstaller_new(ShimloaderSubdirs), 0)

ReturnOfModdingLoaderInstaller(files) == ExtractInstaller_new(files, FlattenTopLevel_Yes)

ReturnOfModdingSubdirs ==
    << separated("plugins", "ReturnOfModding/plugins"),
       separated("plugins_data", "ReturnOfModding/plugins_data"),
       mutable(separated("config", "ReturnOfModding/config")) >>

ReturnOfModdingModInstaller == with_default(SubdirInstaller_new(ReturnOfModdingSubdirs), 0)

LovelyFiles == << "version.dll" >>

LovelyLoaderInstaller == ExtractInstaller_new(LovelyFiles, FlattenTopLevel_No)

LovelySubdirs == << separated("", "mods") >>

LovelyModInstaller == with_default(SubdirInstaller_new(LovelySubdirs), 0)

\* match (is_loader, &self.kind) { ... }
installer_match(is_loader, self) ==
    CASE is_loader /\ self.kind = "BepInEx" -> BepinexInstaller
      [] ~is_loader /\ self.kind = "BepInEx" -> BepInExModInstaller(self.extra_subdirs)
      [] is_loader /\ self.kind = "BepisLoader" -> BepinexInstaller
      [] ~is_loader /\ self.kind = "BepisLoader" -> BepisLoaderModInstaller(self.extra_subdirs)
      [] is_loader /\ self.kind = "MelonLoader" -> MelonLoaderLoaderInstaller
      [] ~is_loader /\ self.kind = "MelonLoader" -> MelonLoaderModInstaller(self.extra_subdirs)
      [] is_loader /\ self.kind = "GDWeave" -> GDWeaveLoaderInstaller
      [] ~is_loader /\ self.kind = "GDWeave" -> GDWeaveModInstaller
      [] is_loader /\ self.kind = "Northstar" -> NorthstarLoaderInstaller
      [] ~is_loader /\ self.kind = "Northstar" -> NorthstarModInstaller
      [] is_loader /\ self.kind = "Shimloader" -> ShimloaderInstaller
      [] ~is_loader /\ self.kind = "Shimloader" -> ShimloaderModInstaller
      [] is_loader /\ self.kind = "ReturnOfModding" -> ReturnOfModdingLoaderInstaller(self.files)
      [] ~is_loader /\ self.kind = "ReturnOfModding" -> ReturnOfModdingModInstaller
      [] is_loader /\ self.kind = "Lovely" -> LovelyLoaderInstaller
      [] ~is_loader /\ self.kind = "Lovely" -> LovelyModInstaller

installer_for_inverted(self, package_name) ==
    installer_match(~is_loader_package(self, package_name), self)

installer_for(self, package_name) ==
    installer_match(is_loader_package(self, package_name), self)

\* proxy_dll: files[0] panics (index out of bounds) on an empty Vec.
ProxyResult(panicked, value) == [panicked |-> panicked, value |-> value]

proxy_dll(self) ==
    CASE self.kind = "BepInEx" -> ProxyResult(FALSE, Some("winhttp"))
      [] self.kind = "GDWeave" -> ProxyResult(FALSE, Some("winmm"))
      [] self.kind = "ReturnOfModding" ->
            IF Len(self.files) > 0
            THEN ProxyResult(FALSE, Some(self.files[1]))
            ELSE ProxyResult(TRUE, None)
      [] OTHER -> ProxyResult(FALSE, None)

\* ------------------------------------------------- package listings

\* A top-level entry of a package: a file, or a directory with the relative
\* paths of the files below it.
FileEntry(name) == [name |-> name, is_dir |-> FALSE, files |-> <<>>]

DirEntry(name, files) == [name |-> name, is_dir |-> TRUE, files |-> files]

\* The files of a top-level entry: src is the package-relative path, rel the
\* path below the top-level segment (the entry itself for a top-level file).
RECURSIVE DirFiles(_, _)
DirFiles(entry, i) ==
    IF i > Len(entry.files) THEN <<>>
    ELSE << [src |-> PathJoin(entry.name, entry.files[i]), rel |-> entry.files[i]] >>
         \o DirFiles(entry, i + 1)

EntryFiles(entry) ==
    IF entry.is_dir THEN DirFiles(entry, 1)
    ELSE << [src |-> entry.name, rel |-> entry.name] >>

Contains(seq, x) == \E i \in 1..Len(seq) : seq[i] = x

\* ------------------------------------------------- SubdirPlacer (spec 4.2)

Layout(rule) == IF rule.mode = "flat_separated" THEN "Flat" ELSE "Nested"

IsTracked(rule) == rule.mode # "untracked"

\* Built-in rules first, extra rules after them.
Rules(subdir_installer) == subdir_installer.subdirs \o subdir_installer.extra_subdirs

RECURSIVE FirstMatch(_, _, _)
FirstMatch(rules, name, i) ==
    IF i > Len(rules) THEN None
    ELSE IF EqIgnoreCase(rules[i].name, name) THEN Some(rules[i])
    ELSE FirstMatch(rules, name, i + 1)

match_subdir(subdir_installer, name) == FirstMatch(Rules(subdir_installer), name, 1)

\* The rule an entry is routed by: the first match, else the default rule,
\* else none (unroutable).
Route(subdir_installer, entry) ==
    LET matched == match_subdir(subdir_installer, entry.name)
    IN  IF IsSome(matched) THEN matched
        ELSE IF IsSome(subdir_installer.default)
        THEN Some(subdir_installer.subdirs[Unwrap(subdir_installer.default) + 1])
        ELSE None

Keeps(rule, file) ==
    IsSome(rule.extension) =>
        EndsWith(ToLower(file.rel), ToLower(Unwrap(rule.extension)))

Destination(rule, mod_id, entry, file) ==
    IF Layout(rule) = "Flat"
    THEN PathJoin(rule.target, file.rel)
    ELSE PathJoin(PathJoin(rule.target, mod_id), file.src)

RECURSIVE PlaceFiles(_, _, _, _, _)
PlaceFiles(rule, mod_id, entry, files, i) ==
    IF i > Len(files) THEN <<>>
    ELSE (IF Keeps(rule, files[i])
          THEN << [src |-> files[i].src,
                   dest |-> Destination(rule, mod_id, entry, files[i]),
                   tracked |-> IsTracked(rule)] >>
          ELSE <<>>)
         \o PlaceFiles(rule, mod_id, entry, files, i + 1)

PlaceEntry(subdir_installer, mod_id, entry) ==
    LET rule == Route(subdir_installer, entry)
    IN  IF Contains(subdir_installer.ignored_files, entry.name)
        THEN [plan |-> <<>>, warnings |-> <<>>]
        ELSE IF IsSome(rule)
        THEN [plan |-> PlaceFiles(Unwrap(rule), mod_id, entry, EntryFiles(entry), 1),
              warnings |-> <<>>]
        ELSE [plan |-> <<>>,
              warnings |-> << [entry |-> entry.name, reason |-> "unroutable"] >>]

RECURSIVE SubdirPlan(_, _, _, _)
SubdirPlan(subdir_installer, mod_id, entries, i) ==
    IF i > Len(entries) THEN [plan |-> <<>>, warnings |-> <<>>]
    ELSE LET head == PlaceEntry(subdir_installer, mod_id, entries[i])
             rest == SubdirPlan(subdir_installer, mod_id, entries, i + 1)
         IN  [plan |-> head.plan \o rest.plan,
              warnings |-> head.warnings \o rest.warnings]

\* --------------------------------------------- ExtractionPlacer (spec 4.3)

\* The files of a top-level directory by their root-relative paths.
RECURSIVE RootFiles(_, _)
RootFiles(entry, i) ==
    IF i > Len(entry.files) THEN <<>>
    ELSE << [src |-> PathJoin(entry.name, entry.files[i]),
             rel |-> PathJoin(entry.name, entry.files[i])] >>
         \o RootFiles(entry, i + 1)

\* The paths the allow-list is matched against: with flatten, the contents of
\* the top-level directories with that wrapper stripped; without, the package
\* root as it is.
RECURSIVE PackagePaths(_, _, _)
PackagePaths(entries, flatten, i) ==
    IF i > Len(entries) THEN <<>>
    ELSE (IF flatten
          THEN (IF entries[i].is_dir THEN DirFiles(entries[i], 1) ELSE <<>>)
          ELSE (IF entries[i].is_dir
                THEN RootFiles(entries[i], 1)
                ELSE EntryFiles(entries[i])))
         \o PackagePaths(entries, flatten, i + 1)

Allows(allowed, path) == path = allowed \/ StartsWith(path, allowed \o "/")

RECURSIVE CopyAllowed(_, _, _)
CopyAllowed(allowed, paths, i) ==
    IF i > Len(paths) THEN <<>>
    ELSE (IF Allows(allowed, paths[i].rel)
          THEN << [src |-> paths[i].src, dest |-> paths[i].rel, tracked |-> TRUE] >>
          ELSE <<>>)
         \o CopyAllowed(allowed, paths, i + 1)

RECURSIVE ExtractFiles(_, _, _)
ExtractFiles(files, paths, i) ==
    IF i > Len(files) THEN <<>>
    ELSE CopyAllowed(files[i], paths, 1) \o ExtractFiles(files, paths, i + 1)

ExtractPlan(extract_installer, entries) ==
    [plan |-> ExtractFiles(extract_installer.files,
                           PackagePaths(entries, extract_installer.flatten, 1), 1),
     warnings |-> <<>>]

\* The plan a placer computes for a package.
InstallPlan(any_installer, mod_id, entries) ==
    IF any_installer.kind = "SubdirInstaller"
    THEN SubdirPlan(any_installer, mod_id, entries, 1)
    ELSE ExtractPlan(any_installer, entries)

\* ------------------------------------------------------------------ state

VARIABLES
    loader,             \* Option<ModLoader>: the descriptor, once deserialized
    install_name,       \* Option<&str>: the package installer_for was asked about
    package_installer,  \* Option<Box<dyn PackageInstaller>>: what installer_for returned
    package_files,      \* Option<listing>: the package the installer was applied to
    placement,          \* [plan, warnings]: what the installer computed for it
    proxy,              \* Option<ProxyResult>: what proxy_dll returned
    creds,              \* State::creds: Option<AuthCredentials> held in memory
    db_auth,            \* Option<AuthCredentials> persisted by Db::save_auth
    pc,                 \* task -> where the task stands
    local,              \* task -> the task's local variables
    now                 \* Utc::now(), in seconds

loader_vars == <<loader, install_name, package_installer, package_files, placement, proxy>>

auth_vars == <<creds, db_auth, pc, local, now>>

vars == <<loader, install_name, package_installer, package_files, placement, proxy,
          creds, db_auth, pc, local, now>>

\* ------------------------------------------------------ loader descriptors

\* Extra rules a registry entry may declare ("subdirs").
ExtraPool ==
    { tracked("plugins", "Custom/plugins"),
      tracked("Mods", "Custom/Mods"),
      tracked("extras", "Custom/extras") }

FilePool == { "d3d12.dll", "ReturnOfModdingDependencies" }

PackageNameOverrides == { None, Some("Custom-Loader") }

\* What deserializing a ModLoader can yield: the variant decides which of
\* "subdirs" and "files" the descriptor carries.
Descriptors ==
    { ModLoader(p, k, e, <<>>) :
        p \in PackageNameOverrides,
        k \in {"BepInEx", "BepisLoader", "MelonLoader"},
        e \in SeqsUpTo(ExtraPool, MaxExtras) }
    \cup
    { ModLoader(p, k, <<>>, <<>>) :
        p \in PackageNameOverrides,
        k \in {"Northstar", "GDWeave", "Shimloader", "Lovely"} }
    \cup
    { ModLoader(p, "ReturnOfModding", <<>>, f) :
        p \in PackageNameOverrides,
        f \in SeqsUpTo(FilePool, MaxFiles) }

PackageNames ==
    { "BepInEx-BepInExPack", "BepInEx-BepInExPack_ROUNDS", "BepInEx-BepInEx",
      "ResoniteModding-BepisLoader", "ResoniteModding-BepInExRenderer",
      "ResoniteModding-BepInExShim",
      "LavaGang-MelonLoader", "LavaGang-MelonLoaderPlus",
      "NotNet-GDWeave", "northstar-Northstar",
      "Thunderstore-unreal_shimloader", "Thunderstore-lovely",
      "ReturnOfModding-ReturnOfModding", "Custom-Loader", "Author-Mod" }

PluginsAndExtras ==
    << DirEntry("plugins", << "Mod.dll" >>), DirEntry("extras", << "Extra.dll" >>) >>

ManifestOnly == << FileEntry("manifest.json") >>

StuffAndMods ==
    << DirEntry("stuff", << "notes.txt" >>), DirEntry("mods", << "MyMod/mod.json" >>) >>

StuffOnly == << DirEntry("stuff", << "notes.txt" >>) >>

WrappedNorthstar == << DirEntry("Northstar", << "Northstar.dll" >>) >>

BareNorthstar == << FileEntry("Northstar.dll"), FileEntry("README.md") >>

Monomod ==
    << DirEntry("MONOMOD", << "Patch.mm.dll", "Patch.dll", "mm.dll.txt" >>),
       FileEntry("manifest.json") >>

Packages ==
    { PluginsAndExtras, ManifestOnly, StuffAndMods, StuffOnly, WrappedNorthstar,
      BareNorthstar, Monomod }

NoPlacement == [plan |-> <<>>, warnings |-> <<>>]

\* ---------------------------------------------------------- loader actions

\* serde deserialization of a ModLoader: every well-typed descriptor is
\* accepted as it is.
Deserialize(descriptor) ==
    /\ loader = None
    /\ loader' = Some(descriptor)
    /\ UNCHANGED <<install_name, package_installer, package_files, placement, proxy>>
    /\ UNCHANGED auth_vars

InstallerFor(name) ==
    /\ IsSome(loader)
    /\ install_name' = Some(name)
    /\ package_installer' = Some(installer_for(Unwrap(loader), name))
    /\ package_files' = None
    /\ placement' = NoPlacement
    /\ UNCHANGED <<loader, proxy>>
    /\ UNCHANGED auth_vars

\* The returned installer computes the plan of a package.
Install(entries) ==
    /\ IsSome(package_installer)
    /\ Unwrap(package_installer).kind \in {"SubdirInstaller", "ExtractInstaller"}
    /\ package_files' = Some(entries)
    /\ placement' = InstallPlan(Unwrap(package_installer), Unwrap(install_name), entries)
    /\ UNCHANGED <<loader, install_name, package_installer, proxy>>
    /\ UNCHANGED auth_vars

ProxyDll ==
    /\ IsSome(loader)
    /\ proxy = None
    /\ proxy' = Some(proxy_dll(Unwrap(loader)))
    /\ UNCHANGED <<loader, install_name, package_installer, package_files, placement>>
    /\ UNCHANGED auth_vars

\* ------------------------------------------------------- auth: the data

User(discord_id, name) == [discord_id |-> discord_id, name |-> name]

\* A token is the sequence of its "."-separated segments; a segment either
\* is base64 or not, and decodes to the JSON of a JwtPayload or to something
\* else.
Segment(base64, json) == [base64 |-> base64, json |-> json]

JwtPayload(exp, user) == [exp |-> exp, user |-> user]

Jwt(exp, user) ==
    << Segment(TRUE, None), Segment(TRUE, Some(JwtPayload(exp, user))), Segment(TRUE, None) >>

Ok(value) == [ok |-> TRUE, value |-> Some(value), error |-> ""]

Err(error) == [ok |-> FALSE, value |-> None, error |-> error]

decode_jwt(token) ==
    IF Len(token) < 2 THEN Err("token is malformed")
    ELSE IF ~token[2].base64 THEN Err("failed to decode base64")
    ELSE IF ~IsSome(token[2].json) THEN Err("failed to deserialize json")
    ELSE Ok(Unwrap(token[2].json))

AuthCredentials(user, access_token, token_expiry, refresh_token) ==
    [user |-> user, access_token |-> access_token,
     token_expiry |-> token_expiry, refresh_token |-> refresh_token]

from_tokens(access_token, refresh_token) ==
    LET payload == decode_jwt(access_token)
    IN  IF ~payload.ok THEN Err("failed to decode jwt")
        ELSE Ok(AuthCredentials(Unwrap(payload.value).user, access_token,
                                Unwrap(payload.value).exp, refresh_token))

\* DateTime::from_timestamp(secs, 0): none outside the representable range
\* (the model's timestamps are small; everything above the range stands for
\* an i64 chrono cannot represent).
DateTime_from_timestamp(secs) == IF secs > MaxTime + 2 THEN None ELSE Some(secs)

Alice == User("1", "alice")

GoodTokens == { Jwt(1, Alice), Jwt(2, Alice) }

BadTokens ==
    { << Segment(TRUE, None) >>,
      << Segment(TRUE, None), Segment(FALSE, None) >>,
      << Segment(TRUE, None), Segment(TRUE, None) >> }

AccessTokens == GoodTokens \cup BadTokens

RefreshTokens == { "refresh-1", "refresh-2" }

\* What the database may hold at startup (db.read()).
StoredCredentials ==
    { None,
      Some(AuthCredentials(Alice, Jwt(1, Alice), 1, "refresh-1")),
      Some(AuthCredentials(Alice, Jwt(1, Alice), MaxTime + 3, "refresh-1")) }

\* The callback url: whether Url::parse accepts it, and its query pairs.
CallbackUrl(parses, access_token, refresh_token) ==
    [parses |-> parses, access_token |-> access_token, refresh_token |-> refresh_token]

CallbackUrls ==
    { CallbackUrl(FALSE, None, None),
      CallbackUrl(TRUE, None, Some("refresh-1")),
      CallbackUrl(TRUE, Some(Jwt(1, Alice)), None) }
    \cup { CallbackUrl(TRUE, Some(a), Some("refresh-2")) : a \in AccessTokens }

\* POST /auth/token: an error (send, status or body), or a TokenResponse.
TokenResponse(access_token, refresh_token) ==
    [access_token |-> access_token, refresh_token |-> refresh_token]

TokenResponses ==
    { Err("request failed") }
    \cup { Ok(TokenResponse(a, r)) : a \in AccessTokens, r \in RefreshTokens }

Tasks == 1..MaxTasks

\* before and interfered are history: the in-memory credentials when the call
\* began, and whether another call has stored credentials since.
NoLocal ==
    [op |-> "", new_creds |-> None, refresh_token |-> None, inbox |-> None,
     lagged |-> FALSE, result |-> <<>>, before |-> None, interfered |-> FALSE]

\* ---------------------------------------------------- auth: the actions

Result(kind, token, user, error) ==
    [kind |-> kind, token |-> token, user |-> user, error |-> error]

\* The task returns: its locals are dropped, its result is kept.
Return(t, result) ==
    /\ pc' = [pc EXCEPT ![t] = "idle"]
    /\ local' = [local EXCEPT ![t] = [NoLocal EXCEPT !.result = Some(result)]]

\* login_with_oauth up to the select!: open the browser, subscribe.
LoginWithOauth(t) ==
    /\ pc[t] = "idle"
    /\ \E opened \in BOOLEAN :
          IF opened
          THEN /\ pc' = [pc EXCEPT ![t] = "select"]
               /\ local' = [local EXCEPT ![t] = [NoLocal EXCEPT !.op = "login_with_oauth", !.before = creds]]
          ELSE Return(t, Result("Err", None, None, "failed to open url in browser"))
    /\ UNCHANGED <<creds, db_auth, now>>
    /\ UNCHANGED loader_vars

\* handle_callback: broadcast the url to every subscribed receiver; the
\* channel holds one message, a receiver that has not taken it lags.
HandleCallback(url) ==
    /\ \E t \in Tasks : pc[t] = "select"
    /\ local' = [t \in Tasks |->
                    IF pc[t] = "select"
                    THEN [local[t] EXCEPT !.inbox = Some(url),
                                          !.lagged = IsSome(local[t].inbox) \/ local[t].lagged]
                    ELSE local[t]]
    /\ UNCHANGED <<creds, db_auth, pc, now>>
    /\ UNCHANGED loader_vars

\* The recv arm of the select!, up to the call of set_creds.
LoginRecv(t) ==
    /\ pc[t] = "select"
    /\ IsSome(local[t].inbox)
    /\ LET url == Unwrap(local[t].inbox)
           made == from_tokens(Unwrap(url.access_token), Unwrap(url.refresh_token))
       IN  IF local[t].lagged
           THEN Return(t, Result("Err", None, None, "channel lagged"))
           ELSE IF ~url.parses
           THEN Return(t, Result("Err", None, None, "invalid url"))
           ELSE IF ~IsSome(url.access_token)
           THEN Return(t, Result("Err", None, None, "access_token parameter is missing"))
           ELSE IF ~IsSome(url.refresh_token)
           THEN Return(t, Result("Err", None, None, "refresh_token parameter is missing"))
           ELSE IF ~made.ok
           THEN Return(t, Result("Err", None, None, made.error))
           ELSE /\ pc' = [pc EXCEPT ![t] = "set_creds_save"]
                /\ local' = [local EXCEPT ![t].new_creds = made.value, ![t].inbox = None]
    /\ UNCHANGED <<creds, db_auth, now>>
    /\ UNCHANGED loader_vars

\* The sleep(OAUTH_TIMEOUT) arm of the select!.
LoginTimeout(t) ==
    /\ pc[t] = "select"
    /\ Return(t, Result("Err", None, None, "auth callback timed out"))
    /\ UNCHANGED <<creds, db_auth, now>>
    /\ UNCHANGED loader_vars

\* access_token up to the await of request_token: the block that holds the
\* creds lock.
AccessToken(t) ==
    /\ pc[t] = "idle"
    /\ IF ~IsSome(creds)
       THEN Return(t, Result("None", None, None, ""))
       ELSE LET held == Unwrap(creds)
                expiry == DateTime_from_timestamp(held.token_expiry)
            IN  IF ~IsSome(expiry)
                THEN Return(t, Result("None", None, None, "token expiry date is invalid"))
                ELSE IF now < Unwrap(expiry)
                THEN Return(t, Result("Some", Some(held.access_token), None, ""))
                ELSE /\ pc' = [pc EXCEPT ![t] = "request_token"]
                     /\ local' = [local EXCEPT ![t] =
                                    [NoLocal EXCEPT !.op = "access_token",
                                                    !.before = creds,
                                                    !.refresh_token = Some(held.refresh_token)]]
    /\ UNCHANGED <<creds, db_auth, now>>
    /\ UNCHANGED loader_vars

\* request_token from the response of the POST up to the call of set_creds.
RequestToken(t, response) ==
    /\ pc[t] = "request_token"
    /\ IF ~response.ok
       THEN Return(t, Result("None", None, None, response.error))
       ELSE LET made == from_tokens(Unwrap(response.value).access_token,
                                    Unwrap(response.value).refresh_token)
            IN  IF ~made.ok
                THEN Return(t, Result("None", None, None, made.error))
                ELSE /\ pc' = [pc EXCEPT ![t] = "set_creds_save"]
                     /\ local' = [local EXCEPT ![t].new_creds = made.value]
    /\ UNCHANGED <<creds, db_auth, now>>
    /\ UNCHANGED loader_vars

\* set_creds with its statements swapped: the in-memory value is written
\* before the database is.
SetCredsSave_store_first(t) ==
    /\ pc[t] = "set_creds_save"
    /\ creds' = local[t].new_creds
    /\ \E saved \in BOOLEAN :
          IF saved
          THEN /\ db_auth' = local[t].new_creds
               /\ pc' = [pc EXCEPT ![t] = "set_creds_store"]
               /\ UNCHANGED local
          ELSE /\ UNCHANGED db_auth
               /\ IF local[t].op = "access_token"
                  THEN Return(t, Result("None", None, None, "failed to save auth"))
                  ELSE Return(t, Result("Err", None, None, "failed to save auth"))
    /\ UNCHANGED now
    /\ UNCHANGED loader_vars

\* set_creds, first statement: db.save_auth(creds.as_ref())?
SetCredsSave(t) ==
    /\ pc[t] = "set_creds_save"
    /\ \E saved \in BOOLEAN :
          IF saved
          THEN /\ db_auth' = local[t].new_creds
               /\ pc' = [pc EXCEPT ![t] = "set_creds_store"]
               /\ UNCHANGED local
          ELSE /\ UNCHANGED db_auth
               /\ IF local[t].op = "access_token"
                  THEN Return(t, Result("None", None, None, "failed to save auth"))
                  ELSE Return(t, Result("Err", None, None, "failed to save auth"))
    /\ UNCHANGED <<creds, now>>
    /\ UNCHANGED loader_vars

\* set_creds, second statement: *self.creds() = creds; then the caller returns.
SetCredsStore(t) ==
    /\ pc[t] = "set_creds_store"
    /\ creds' = local[t].new_creds
    /\ pc' = [pc EXCEPT ![t] = "idle"]
    /\ LET new == Unwrap(local[t].new_creds)
           result == IF local[t].op = "access_token"
                     THEN Result("Some", Some(new.access_token), None, "")
                     ELSE Result("Ok", None, Some(new.user), "")
       IN  local' = [u \in Tasks |->
                        IF u = t THEN [NoLocal EXCEPT !.result = Some(result)]
                        ELSE IF pc[u] # "idle" THEN [local[u] EXCEPT !.interfered = TRUE]
                        ELSE local[u]]
    /\ UNCHANGED <<db_auth, now>>
    /\ UNCHANGED loader_vars

\* Utc::now() advances.
Tick ==
    /\ now < MaxTime
    /\ now' = now + 1
    /\ UNCHANGED <<creds, db_auth, pc, local>>
    /\ UNCHANGED loader_vars

\* ------------------------------------------------------- specifications

AuthIdle ==
    /\ pc = [t \in Tasks |-> "idle"]
    /\ local = [t \in Tasks |-> NoLocal]
    /\ now = 0

LoaderUnloaded ==
    /\ loader = None
    /\ install_name = None
    /\ package_installer = None
    /\ package_files = None
    /\ placement = NoPlacement
    /\ proxy = None

\* The mod loader side: a descriptor is deserialized, installers are asked
\* for and applied.
Init ==
    /\ LoaderUnloaded
    /\ creds = None
    /\ db_auth = None
    /\ AuthIdle

Next ==
    \/ \E descriptor \in Descriptors : Deserialize(descriptor)
    \/ \E name \in PackageNames : InstallerFor(name)
    \/ \E entries \in Packages : Install(entries)
    \/ ProxyDll

Spec == Init /\ [][Next]_vars

\* The sync auth side: State::new(stored_creds) with what db.read() returned.
InitAuth ==
    /\ LoaderUnloaded
    /\ \E stored \in StoredCredentials : creds = stored /\ db_auth = stored
    /\ AuthIdle

NextAuth ==
    \/ \E t \in Tasks : LoginWithOauth(t)
    \/ \E url \in CallbackUrls : HandleCallback(url)
    \/ \E t \in Tasks : LoginRecv(t)
    \/ \E t \in Tasks : LoginTimeout(t)
    \/ \E t \in Tasks : AccessToken(t)
    \/ \E t \in Tasks, response \in TokenResponses : RequestToken(t, response)
    \/ \E t \in Tasks : SetCredsSave(t)
    \/ \E t \in Tasks : SetCredsStore(t)
    \/ Tick

SpecAuth == InitAuth /\ [][NextAuth]_vars

\* The extraction placer on its own: ExtractInstaller::new(files, flatten)
\* for allow-lists and flatten flags drawn from bounded sets, next to the one
\* installer_for builds for the Northstar loader package, each applied to a
\* package.
AllowPool == { "Northstar.dll", "bin", "R2Northstar/plugins" }

NorthstarLoader == ModLoader(None, "Northstar", <<>>, <<>>)

InitExtract ==
    /\ loader = Some(NorthstarLoader)
    /\ install_name = Some("northstar-Northstar")
    /\ package_installer \in
          { Some(installer_for(NorthstarLoader, "northstar-Northstar")) }
          \cup { Some(ExtractInstaller_new(files, flatten)) :
                    files \in SeqsUpTo(AllowPool, MaxFiles), flatten \in BOOLEAN }
    /\ package_files = None
    /\ placement = NoPlacement
    /\ proxy = None
    /\ creds = None
    /\ db_auth = None
    /\ AuthIdle

NextExtract == \E entries \in Packages : Install(entries)

SpecExtract == InitExtract /\ [][NextExtract]_vars

\* ------------------------------------------------------------------ claims

\* installer_for has been called: the descriptor, the answer of
\* is_loader_package and the installer returned.
Asked == IsSome(loader) /\ IsSome(package_installer)

TheLoader == Unwrap(loader)

IsSelf == is_loader_package(TheLoader, Unwrap(install_name))

TheInstaller == Unwrap(package_installer)

\* The installer has been applied to a package.
Installed == Asked /\ IsSome(package_files)

Entries == Unwrap(package_files)

\* A plan or warning entry that comes from the top-level entry `entry`.
From(src, entry) == src = entry.name \/ StartsWith(src, entry.name \o "/")

PlanFrom(entry) == { k \in 1..Len(placement.plan) : From(placement.plan[k].src, entry) }

WarningsFor(entry) ==
    { k \in 1..Len(placement.warnings) : placement.warnings[k].entry = entry.name }

BuiltinSubdirs(kind) ==
    CASE kind = "BepInEx" -> BepInExSubdirs
      [] kind = "BepisLoader" -> BepisLoaderSubdirs
      [] kind = "MelonLoader" -> MelonLoaderSubdirs
      [] kind = "Northstar" -> NorthstarSubdirs
      [] kind = "Shimloader" -> ShimloaderSubdirs
      [] kind = "ReturnOfModding" -> ReturnOfModdingSubdirs
      [] kind = "Lovely" -> LovelySubdirs
      [] OTHER -> <<>>

\* The index of the first built-in rule that matches `name`, or 0.
FirstBuiltin(kind, name) ==
    LET hits == { j \in 1..Len(BuiltinSubdirs(kind)) :
                    EqIgnoreCase(BuiltinSubdirs(kind)[j].name, name) }
    IN  IF hits = {} THEN 0 ELSE CHOOSE j \in hits : \A h \in hits : j <= h

\* C1 as stated: the loader's self-package always gets an ExtractInstaller,
\* any other package always gets a SubdirInstaller.
C1_ExtractXorSubdir ==
    Asked => TheInstaller.kind = IF IsSelf THEN "ExtractInstaller" ELSE "SubdirInstaller"

\* C1 amended: the self-package gets an ExtractInstaller for MelonLoader,
\* GDWeave, Northstar, ReturnOfModding and Lovely, the BepinexInstaller for
\* BepInEx and BepisLoader and the ShimloaderInstaller for Shimloader; any other
\* package gets a SubdirInstaller, except under GDWeave (GDWeaveModInstaller).
C1_InstallerKinds ==
    Asked =>
        TheInstaller.kind =
            IF IsSelf
            THEN (IF TheLoader.kind \in {"BepInEx", "BepisLoader"} THEN "BepinexInstaller"
                  ELSE IF TheLoader.kind = "Shimloader" THEN "ShimloaderInstaller"
                  ELSE "ExtractInstaller")
            ELSE (IF TheLoader.kind = "GDWeave" THEN "GDWeaveModInstaller"
                  ELSE "SubdirInstaller")

C1_Witness ==
    /\ Asked
    /\ TheLoader.kind = "BepisLoader"
    /\ IsSelf
    /\ TheInstaller.kind = "BepinexInstaller"

\* The package names a descriptor takes for its loader's own package.
Accepted(self) == { n \in PackageNames : is_loader_package(self, n) }

\* One exact-match or one prefix-match rule against one identifier decides
\* is_loader_package.
SingleRule(self) ==
    \E n \in Accepted(self) : \E k \in 1..Len(n) :
        LET id == SubSeq(n, 1, k)
        IN  \/ Accepted(self) = { m \in PackageNames : m = id }
            \/ Accepted(self) = { m \in PackageNames : StartsWith(m, id) }

OverrideDecides(self) ==
    \A n \in PackageNames : is_loader_package(self, n) <=> (n = Unwrap(self.package_name))

\* C2 as stated: with an override, only the override is the loader package;
\* without, one exact-match or one prefix-match rule against one identifier
\* decides, whatever the variant.
C2_SingleRulePerVariant ==
    IsSome(loader) =>
        IF IsSome(TheLoader.package_name)
        THEN OverrideDecides(TheLoader)
        ELSE SingleRule(TheLoader)

\* C2 amended: as stated, except that BepisLoader's built-in identity is two
\* exact-match rules: ResoniteModding-BepisLoader or
\* ResoniteModding-BepInExRenderer.
C2_IdentityRules ==
    IsSome(loader) =>
        IF IsSome(TheLoader.package_name)
        THEN OverrideDecides(TheLoader)
        ELSE IF TheLoader.kind = "BepisLoader"
        THEN Accepted(TheLoader) =
                { "ResoniteModding-BepisLoader", "ResoniteModding-BepInExRenderer" }
        ELSE SingleRule(TheLoader)

C2_Witness ==
    /\ Asked
    /\ TheLoader.kind = "BepisLoader"
    /\ TheLoader.package_name = None
    /\ install_name = Some("ResoniteModding-BepInExRenderer")
    /\ TheInstaller.kind = "BepinexInstaller"

\* C3: for an ordinary package under BepInEx, BepisLoader or MelonLoader the
\* rules are the built-in rules in declared order followed by the
\* descriptor's extra_subdirs, and every file placed from a top-level entry
\* that a built-in rule matches is placed by the first such built-in rule,
\* whatever the extra rules are.
C3_BuiltinsBeforeExtras ==
    (Asked /\ HasExtraSubdirs(TheLoader.kind) /\ ~IsSelf) =>
        /\ TheInstaller.kind = "SubdirInstaller"
        /\ Rules(TheInstaller) = BuiltinSubdirs(TheLoader.kind) \o TheLoader.extra_subdirs
        /\ IsSome(package_files) =>
              \A i \in 1..Len(Entries) :
                 LET j == FirstBuiltin(TheLoader.kind, Entries[i].name)
                     rule == BuiltinSubdirs(TheLoader.kind)[j]
                 IN  (j > 0 /\ ~Contains(TheInstaller.ignored_files, Entries[i].name)) =>
                        /\ \A k \in PlanFrom(Entries[i]) :
                              /\ StartsWith(placement.plan[k].dest, rule.target \o "/")
                              /\ placement.plan[k].tracked = IsTracked(rule)
                        /\ \A f \in 1..Len(EntryFiles(Entries[i])) :
                              Keeps(rule, EntryFiles(Entries[i])[f]) =>
                                 \E k \in PlanFrom(Entries[i]) :
                                    placement.plan[k].src = EntryFiles(Entries[i])[f].src

C3_Witness ==
    /\ Installed
    /\ TheLoader.kind = "BepInEx"
    /\ ~IsSelf
    /\ TheLoader.extra_subdirs = << tracked("plugins", "Custom/plugins") >>
    /\ Entries = PluginsAndExtras
    /\ \E k \in 1..Len(placement.plan) :
          /\ placement.plan[k].src = "plugins/Mod.dll"
          /\ placement.plan[k].dest = "BepInEx/plugins/Mod.dll"

\* C4: under BepInEx and BepisLoader, a top-level entry that is not ignored
\* and matches no rule goes through the "plugins" rule: each of its files is
\* placed once, at BepInEx/plugins/<file> (flat) and tracked, as the files of
\* an entry named "plugins" are, and no warning names the entry.
C4_DefaultIsPlugins ==
    (Installed /\ TheLoader.kind \in {"BepInEx", "BepisLoader"} /\ ~IsSelf) =>
        \A i \in 1..Len(Entries) :
           (/\ match_subdir(TheInstaller, Entries[i].name) = None
            /\ ~Contains(TheInstaller.ignored_files, Entries[i].name)) =>
               /\ WarningsFor(Entries[i]) = {}
               /\ Cardinality(PlanFrom(Entries[i])) = Len(EntryFiles(Entries[i]))
               /\ \A f \in 1..Len(EntryFiles(Entries[i])) :
                     \E k \in PlanFrom(Entries[i]) :
                        /\ placement.plan[k].src = EntryFiles(Entries[i])[f].src
                        /\ placement.plan[k].dest =
                              PathJoin("BepInEx/plugins", EntryFiles(Entries[i])[f].rel)
                        /\ placement.plan[k].tracked
               /\ Entries[i].is_dir =>
                  PlaceEntry(TheInstaller, Unwrap(install_name),
                             [Entries[i] EXCEPT !.name = "plugins"]).plan
                  = [k \in 1..Len(EntryFiles(Entries[i])) |->
                        [src |-> PathJoin("plugins", EntryFiles(Entries[i])[k].rel),
                         dest |-> PathJoin("BepInEx/plugins", EntryFiles(Entries[i])[k].rel),
                         tracked |-> TRUE]]

C4_Witness ==
    /\ Installed
    /\ TheLoader.kind = "BepisLoader"
    /\ ~IsSelf
    /\ TheLoader.extra_subdirs = <<>>
    /\ Entries = PluginsAndExtras
    /\ \E k \in 1..Len(placement.plan) :
          /\ placement.plan[k].src = "extras/Extra.dll"
          /\ placement.plan[k].dest = "BepInEx/plugins/Extra.dll"
    /\ placement.warnings = <<>>

\* C5: under Northstar's ordinary-mod rules (no default), a top-level entry
\* that is not ignored and matches no rule yields no plan entry and exactly
\* one unroutable warning naming it, and every file of every entry that does
\* match is still placed.
C5_UnroutableIsWarned ==
    (Installed /\ TheLoader.kind = "Northstar" /\ ~IsSelf) =>
        /\ TheInstaller.default = None
        /\ \A i \in 1..Len(Entries) :
              IF Contains(TheInstaller.ignored_files, Entries[i].name)
              THEN TRUE
              ELSE IF match_subdir(TheInstaller, Entries[i].name) = None
              THEN /\ PlanFrom(Entries[i]) = {}
                   /\ Cardinality(WarningsFor(Entries[i])) = 1
                   /\ \A k \in WarningsFor(Entries[i]) :
                         placement.warnings[k].reason = "unroutable"
              ELSE /\ Cardinality(PlanFrom(Entries[i])) = Len(EntryFiles(Entries[i]))
                   /\ WarningsFor(Entries[i]) = {}

C5_Witness ==
    /\ Installed
    /\ TheLoader.kind = "Northstar"
    /\ ~IsSelf
    /\ Entries = StuffAndMods
    /\ Len(placement.plan) = 1
    /\ placement.plan[1].src = "mods/MyMod/mod.json"
    /\ placement.warnings = << [entry |-> "stuff", reason |-> "unroutable"] >>

\* C6 as stated: under every variant's ordinary-mod SubdirInstaller a package
\* whose only top-level entry is manifest.json yields an empty plan and no
\* warning.
C6_ManifestAlwaysIgnored ==
    (Installed /\ ~IsSelf /\ TheInstaller.kind = "SubdirInstaller"
       /\ Entries = ManifestOnly) =>
        placement = NoPlacement

\* C6 amended: that holds for MelonLoader and Northstar, the two variants
\* whose ordinary-mod installer is given an ignored set: there a top-level
\* manifest.json yields no plan entry and no warning. BepInEx, BepisLoader,
\* Shimloader, ReturnOfModding and Lovely pass no ignored set, and
\* manifest.json is placed through their default rule: one plan entry, no
\* warning.
C6_ManifestIgnoredWhereListed ==
    (Installed /\ ~IsSelf /\ TheInstaller.kind = "SubdirInstaller") =>
        /\ (TheLoader.kind \in {"MelonLoader", "Northstar"} /\ Entries = ManifestOnly) =>
              placement = NoPlacement
        /\ \A i \in 1..Len(Entries) :
              Entries[i].name = "manifest.json" =>
                 /\ WarningsFor(Entries[i]) = {}
                 /\ Cardinality(PlanFrom(Entries[i])) =
                       IF TheLoader.kind \in {"MelonLoader", "Northstar"} THEN 0 ELSE 1

C6_Witness ==
    /\ Installed
    /\ TheLoader.kind = "Northstar"
    /\ ~IsSelf
    /\ Entries = ManifestOnly
    /\ placement = NoPlacement

\* An extra rule of the descriptor has the match_name of a built-in rule of
\* its variant.
HasDuplicateExtra(self) ==
    \E i \in 1..Len(self.extra_subdirs) :
       \E j \in 1..Len(BuiltinSubdirs(self.kind)) :
          self.extra_subdirs[i].name = BuiltinSubdirs(self.kind)[j].name

\* C7: a descriptor with an extra rule that duplicates a built-in rule's
\* match_name is rejected when it is loaded, so installer_for never returns
\* an installer for it.
C7_DuplicateExtraRejected ==
    (IsSome(loader) /\ HasDuplicateExtra(TheLoader)) => package_installer = None

\* C8: proxy_dll returns a name or none for every descriptor, and for a
\* ReturnOfModding descriptor the first entry of its files.
C8_ProxyDllTotal ==
    (IsSome(loader) /\ IsSome(proxy)) =>
        /\ ~Unwrap(proxy).panicked
        /\ TheLoader.kind = "ReturnOfModding" =>
              /\ Len(TheLoader.files) >= 1
              /\ Unwrap(proxy).value = Some(TheLoader.files[1])

NorthstarDllAtRoot ==
    [plan |-> << [src |-> "Northstar/Northstar.dll", dest |-> "Northstar.dll",
                  tracked |-> TRUE] >>,
     warnings |-> <<>>]

\* C9: the extraction placer with allow-list ["Northstar.dll"] on the package
\* <wrapper>/Northstar.dll places, with flatten set, exactly that file at
\* the game root as Northstar.dll, tracked, and with flatten unset nothing,
\* without a warning; the installer of the Northstar loader package is
\* configured with flatten set and places the file so.
C9_FlattenStripsWrapper ==
    (Installed /\ TheInstaller.kind = "ExtractInstaller" /\ Entries = WrappedNorthstar) =>
        /\ TheInstaller.files = << "Northstar.dll" >> =>
              placement = IF TheInstaller.flatten THEN NorthstarDllAtRoot ELSE NoPlacement
        /\ TheInstaller.files = NorthstarFiles => placement = NorthstarDllAtRoot

C9_Witness ==
    /\ Installed
    /\ TheInstaller.files = << "Northstar.dll" >>
    /\ ~TheInstaller.flatten
    /\ Entries = WrappedNorthstar
    /\ placement = NoPlacement

\* C10: whenever no set_creds call is in progress, the credentials held in
\* memory are the credentials persisted in the database.
C10_MemoryEqualsPersisted ==
    (\A t \in Tasks : pc[t] \notin {"set_creds_save", "set_creds_store"}) =>
        creds = db_auth

\* Task t returns from a call that had been suspended (the select! of
\* login_with_oauth, the refresh of access_token) in this step.
Returns(t) == pc[t] # "idle" /\ pc'[t] = "idle"

Failed(result) == result.kind \in {"Err", "None"}

\* C11: a login or a refresh that fails leaves the in-memory credentials as
\* they are: the step in which it returns changes nothing, the credentials
\* are those the call began with unless another call has stored new ones
\* meanwhile, and a failed refresh returns none, no token; the credentials
\* change only in the step in which a call stores them and returns success
\* with what it stored.
C11_FailureLeavesCreds ==
    [][/\ \A t \in Tasks :
             (Returns(t) /\ Failed(Unwrap(local'[t].result))) =>
                /\ creds' = creds
                /\ ~local[t].interfered => creds' = local[t].before
                /\ Unwrap(local'[t].result).token = None
                /\ Unwrap(local'[t].result).user = None
       /\ creds' # creds =>
             \E t \in Tasks :
                /\ pc[t] = "set_creds_store"
                /\ Returns(t)
                /\ ~Failed(Unwrap(local'[t].result))
                /\ creds' = local[t].new_creds
                /\ local[t].op = "access_token" =>
                      Unwrap(local'[t].result).token = Some(Unwrap(creds').access_token)]_vars

\* A refresh has failed on the database save and a login on an undecodable
\* token, with credentials held in memory.
C11_Witness ==
    /\ IsSome(creds)
    /\ \E t \in Tasks :
          /\ pc[t] = "idle"
          /\ local[t].result = Some(Result("None", None, None, "failed to save auth"))
    /\ \E t \in Tasks :
          /\ pc[t] = "idle"
          /\ local[t].result = Some(Result("Err", None, None, "failed to decode jwt"))

====
